---- MODULE Spec2Model ----
(***************************************************************************)
(* Model of ctkXnatFile (Libs/XNAT/Core/ctkXnatFile.cpp): the property     *)
(* accessors, downloadImpl and the verified upload saveImpl.               *)
(*                                                                         *)
(* A QString is modelled as a sequence of tokens (TLA+ strings); appending *)
(* is \o and QString::arg substitutes the place-marker tokens "%1", "%2".  *)
(* saveImpl is split at its calls into the session (upload, httpGet,       *)
(* httpSync), each of which may return or throw; pc is the position of the *)
(* running call.                                                           *)
(***************************************************************************)
EXTENDS Integers, Sequences, FiniteSets, TLC

VARIABLES
  properties,        \* ctkXnatObjectPrivate::properties, a QMap<QString,QString>
  inserted,          \* history: generic keys in the order they were first inserted
  localFilePath,     \* ctkXnatFilePrivate::localFilePath
  fs,                \* local file system: the paths that exist
  remoteExists,      \* what exists() answers for this resource
  pc,                \* position of the running saveImpl / downloadImpl
  query,             \* saveImpl's local `query`
  calls,             \* calls made on the session / the object, in order
  result,            \* saveImpl's local `result` (the catalog list)
  md5ChecksumRemote, \* saveImpl's local
  md5ChecksumLocal,  \* saveImpl's local, NoValue while not computed
  fileOpened,        \* whether file.open(ReadOnly) succeeded in this attempt
  eraseOutcome,      \* how the rollback deletion went, NoValue while not called
  thrown,            \* the exception that left the call, NoValue if none
  warnings,          \* qWarning() output of the attempt
  stages,            \* history: the stages the attempt entered, in order
  fileHandle,        \* saveImpl's local QFile `file`: "open" or "closed"
  previousChecksum   \* history: md5ChecksumRemote of the attempt before this one

vars == <<properties, inserted, localFilePath, fs, remoteExists, pc, query, calls,
          result, md5ChecksumRemote, md5ChecksumLocal, fileOpened, eraseOutcome,
          thrown, warnings, stages, fileHandle, previousChecksum>>

objectVars == <<properties, inserted, localFilePath, fs, remoteExists>>
attemptVars == <<query, calls, result, md5ChecksumRemote, md5ChecksumLocal,
                 fileOpened, eraseOutcome, thrown, warnings, stages>>

----------------------------------------------------------------------------
(* Bounds and input sets *)

MaxCatalog == 2

NoValue == "<none>"

FILE_NAME == "Name"
FILE_TAGS == "file_tags"
FILE_FORMAT == "file_format"
FILE_CONTENT == "file_content"

ReservedKeys == {FILE_TAGS, FILE_FORMAT, FILE_CONTENT}
GenericKeys == {FILE_NAME, "label"}
AllKeys == GenericKeys \cup ReservedKeys

\* QString::operator< on the keys of the model (code-unit order).
KeyOrder == <<"Name", "file_content", "file_format", "file_tags", "label">>

FileNames == {"a.dcm"}
LabelValues == {"L1"}
FormatValues == {"DICOM"}
ContentValues == {"T1"}
TagValues == {"tagA"}

SchemaType == "xnat:fileData"
ParentResourceUri == "/data/experiments/E1/resources/R1"

LocalPaths == {"/tmp/a.dcm"}
DestinationPaths == {"/tmp/out.dcm"}

Checksums == {"0", "abc123", "def456"}
Digests == {"abc123", "def456"}
OtherFile == "b.dcm"
OtherChecksum == "abc123"
ColumnKeys == FileNames \cup {OtherFile}

\* A QVariantMap of the catalog: file name -> checksum-like value.
Records ==
  {r \in UNION {[D -> Checksums] : D \in SUBSET ColumnKeys} :
     OtherFile \in DOMAIN r => r[OtherFile] = OtherChecksum}

Catalogs == UNION {[1..n -> Records] : n \in 0..MaxCatalog}

Range(s) == {s[i] : i \in DOMAIN s}

----------------------------------------------------------------------------
(* QString::arg *)

RECURSIVE Subst(_, _, _)
Subst(t, marker, rep) ==
  IF t = <<>> THEN <<>>
  ELSE (IF Head(t) = marker THEN rep ELSE <<Head(t)>>) \o Subst(Tail(t), marker, rep)

\* QString::arg(const QString& a1, const QString& a2): both markers at once.
Arg2(t, a1, a2) ==
  [i \in DOMAIN t |-> IF t[i] = "%1" THEN a1 ELSE IF t[i] = "%2" THEN a2 ELSE t[i]]

\* QString::size() of the literals passed with a field width
StrLen(s) == CASE s = "overwrite" -> 9 [] s = "" -> 0

RECURSIVE Spaces(_)
Spaces(n) == IF n <= 0 THEN <<>> ELSE <<" ">> \o Spaces(n - 1)

LowestMarker(t) ==
  IF "%1" \in Range(t) THEN "%1" ELSE IF "%2" \in Range(t) THEN "%2" ELSE NoValue

\* QString::arg(const QString& a, int fieldWidth): the lowest marker only,
\* padded to fieldWidth.
ArgFieldWidth(t, a, fieldWidth) ==
  Subst(t, LowestMarker(t), Spaces(fieldWidth - StrLen(a)) \o <<a>>)

\* bool -> int integral promotion
BoolToInt(b) == IF b THEN 1 ELSE 0

----------------------------------------------------------------------------
(* ctkXnatObject property store *)

property(name) == IF name \in DOMAIN properties THEN properties[name] ELSE ""

SetPropertyMap(props, k, v) ==
  [x \in (DOMAIN props) \cup {k} |-> IF x = k THEN v ELSE props[x]]

RECURSIVE Reverse(_)
Reverse(s) == IF s = <<>> THEN <<>> ELSE Append(Reverse(Tail(s)), Head(s))

\* mutant: the map is walked from its last key
IterationOrder_Backward(props) ==
  Reverse(SelectSeq(KeyOrder, LAMBDA k : k \in DOMAIN props))

\* QMapIterator: ascending key order
IterationOrder(props) == SelectSeq(KeyOrder, LAMBDA k : k \in DOMAIN props)

name == property(FILE_NAME)
fileFormat == property(FILE_FORMAT)
fileContent == property(FILE_CONTENT)
fileTags == property(FILE_TAGS)

resourceUri == Arg2(<<"%1", "/files/", "%2">>, ParentResourceUri, name)

----------------------------------------------------------------------------
(* saveImpl: the upload query, lines 157 and 169-194 *)

ParamTemplate == <<"&", "%1", "=", "%2">>

\* lines 172-184: every property but the three file specific ones
RECURSIVE AppendProperties(_, _)
AppendProperties(keys, props) ==
  IF keys = <<>> THEN <<>>
  ELSE (IF Head(keys) \in ReservedKeys
          THEN <<>>
          ELSE Arg2(ParamTemplate, Head(keys), props[Head(keys)]))
       \o AppendProperties(Tail(keys), props)

\* lines 185-187
FileParams ==
  Arg2(ParamTemplate, "format", fileFormat)
    \o Arg2(ParamTemplate, "content", fileContent)
    \o Arg2(ParamTemplate, "tags", fileTags)

\* lines 190-191: arg("overwrite", true) resolves to arg(const QString&, int
\* fieldWidth), the bool being promoted to int.
OverwriteParam(exists) ==
  IF exists THEN ArgFieldWidth(ParamTemplate, "overwrite", BoolToInt(TRUE)) ELSE <<>>

\* line 194
InbodyParam == Arg2(ParamTemplate, "inbody", "true")

UploadQuery ==
  resourceUri
    \o Arg2(<<"?", "%1", "=", "%2">>, "xsi:type", SchemaType)
    \o AppendProperties(IterationOrder(properties), properties)
    \o FileParams
    \o OverwriteParam(remoteExists)
    \o InbodyParam

----------------------------------------------------------------------------
(* saveImpl: the catalog scan and the comparison, lines 205-236 *)

\* lines 209-219: from the last record towards the first
RECURSIVE ScanBackward(_, _, _)
ScanBackward(res, nm, i) ==
  IF i = 0 THEN "0"
  ELSE IF nm \in DOMAIN res[i] THEN res[i][nm]
  ELSE ScanBackward(res, nm, i - 1)

\* lines 209-219: the indices the loop visits, in order
RECURSIVE ScanVisits(_, _, _)
ScanVisits(res, nm, i) ==
  IF i = 0 THEN <<>>
  ELSE IF nm \in DOMAIN res[i] THEN <<i>>
  ELSE <<i>> \o ScanVisits(res, nm, i - 1)

\* mutant: the list is scanned from its first record
RECURSIVE ScanForward(_, _, _)
ScanForward(res, nm, i) ==
  IF i > Len(res) THEN "0"
  ELSE IF nm \in DOMAIN res[i] THEN res[i][nm]
  ELSE ScanForward(res, nm, i + 1)

RemoteChecksum_Forward(res, nm) == ScanForward(res, nm, 1)

RemoteChecksum(res, nm) == ScanBackward(res, nm, Len(res))

\* mutant: the existence check is lost
FileExists_Unchecked(path) == TRUE

\* QFile::exists()
FileExists(path) == path \in fs

\* mutant: the sentinel "0" is compared like a checksum
CanValidate_NoSentinel(opened, remote) == opened

\* mutant: the result of file.open() is ignored
CanValidate_IgnoreOpen(opened, remote) == remote # "0"

\* line 221
CanValidate(opened, remote) == opened /\ remote # "0"

\* mutant: the comparison never reports a difference
ChecksumMismatch_Never(local, remote) == FALSE

\* mutant: the comparison is inverted
ChecksumMismatch_Inverted(local, remote) == local = remote

\* line 230
ChecksumMismatch(local, remote) == local # remote

\* mutant: a failed deletion is reported instead of the mismatch
MismatchThrown_EraseError(outcome) ==
  IF outcome = "failed" THEN "EraseError" ELSE "UploadIntegrityMismatch"

\* line 234: thrown once erase() has returned
MismatchThrown(outcome) == "UploadIntegrityMismatch"

\* QFile::open(QFile::ReadOnly) at line 221
HandleAfterOpen(opened) == IF opened THEN "open" ELSE "closed"

\* mutant: the file object outlives the call and is never closed
ScopeExit_Leak(handle) == handle

\* line 160: `file` has automatic storage; ~QFile() closes it when saveImpl is
\* left, by return (line 243) or by the exception of line 234
ScopeExit(handle) == "closed"

\* ctkXnatObject::erase(): deletes the remote file or fails
EraseOutcomes == {"deleted", "failed"}

Call(op, file, uri) == [op |-> op, file |-> file, uri |-> uri]

----------------------------------------------------------------------------
Init ==
  /\ properties = <<>>
  /\ inserted = <<>>
  /\ localFilePath = ""
  /\ fs = {}
  /\ remoteExists = FALSE
  /\ pc = "Idle"
  /\ query = <<>>
  /\ calls = <<>>
  /\ result = <<>>
  /\ md5ChecksumRemote = NoValue
  /\ md5ChecksumLocal = NoValue
  /\ fileOpened = FALSE
  /\ eraseOutcome = NoValue
  /\ thrown = NoValue
  /\ warnings = <<>>
  /\ stages = <<>>
  /\ fileHandle = "closed"
  /\ previousChecksum = NoValue

(* Accessors, lines 67-119.  They run between calls of saveImpl. *)

setProperty(k, v) ==
  /\ pc = "Idle"
  /\ properties' = SetPropertyMap(properties, k, v)
  /\ inserted' = IF k \in GenericKeys /\ k \notin DOMAIN properties
                   THEN Append(inserted, k) ELSE inserted
  /\ UNCHANGED <<localFilePath, fs, remoteExists, pc>>
  /\ UNCHANGED attemptVars
  /\ UNCHANGED <<fileHandle, previousChecksum>>

setName == \E n \in FileNames : setProperty(FILE_NAME, n)

setLabel == \E v \in LabelValues : setProperty("label", v)

setFileFormat == \E v \in FormatValues : setProperty(FILE_FORMAT, v)

setFileContent == \E v \in ContentValues : setProperty(FILE_CONTENT, v)

setFileTags == \E v \in TagValues : setProperty(FILE_TAGS, v)

setLocalFilePath ==
  /\ pc = "Idle"
  /\ \E p \in LocalPaths \cup {""} : localFilePath' = p
  /\ localFilePath' # localFilePath
  /\ UNCHANGED <<properties, inserted, fs, remoteExists, pc>>
  /\ UNCHANGED attemptVars
  /\ UNCHANGED <<fileHandle, previousChecksum>>

(* Environment: the local file system and the archive *)

LocalFileChanges ==
  /\ pc = "Idle"
  /\ \E p \in LocalPaths : fs' = IF p \in fs THEN fs \ {p} ELSE fs \cup {p}
  /\ UNCHANGED <<properties, inserted, localFilePath, remoteExists, pc>>
  /\ UNCHANGED attemptVars
  /\ UNCHANGED <<fileHandle, previousChecksum>>

RemoteChanges ==
  /\ pc = "Idle"
  /\ remoteExists' = ~remoteExists
  /\ UNCHANGED <<properties, inserted, localFilePath, fs, pc>>
  /\ UNCHANGED attemptVars
  /\ UNCHANGED <<fileHandle, previousChecksum>>

(* saveImpl, lines 154-243 *)

\* mutant: an unset name is rejected with the missing file
SaveLocalFileMissing_OrNoName ==
  /\ pc = "Idle"
  /\ ~FileExists(localFilePath) \/ name = ""
  /\ pc' = "Failed"
  /\ thrown' = "LocalFileMissing"
  /\ stages' = <<"Validating">>
  /\ query' = resourceUri
  /\ UNCHANGED objectVars
  /\ UNCHANGED <<calls, result, md5ChecksumRemote, md5ChecksumLocal, fileOpened,
                 eraseOutcome, warnings>>
  /\ UNCHANGED <<fileHandle, previousChecksum>>

\* lines 156-167: the local file does not exist
SaveLocalFileMissing ==
  /\ pc = "Idle"
  /\ ~FileExists(localFilePath)
  /\ pc' = "Failed"
  /\ thrown' = "LocalFileMissing"
  /\ stages' = <<"Validating">>
  /\ query' = resourceUri
  /\ UNCHANGED objectVars
  /\ UNCHANGED <<calls, result, md5ChecksumRemote, md5ChecksumLocal, fileOpened,
                 eraseOutcome, warnings>>
  /\ UNCHANGED <<fileHandle, previousChecksum>>

\* lines 156-194: the local file exists, the query is built
SaveBuildQuery ==
  /\ pc = "Idle"
  /\ FileExists(localFilePath)
  /\ query' = UploadQuery
  /\ pc' = "Transmitting"
  /\ stages' = <<"Validating", "Transmitting">>
  /\ UNCHANGED objectVars
  /\ UNCHANGED <<calls, result, md5ChecksumRemote, md5ChecksumLocal, fileOpened,
                 eraseOutcome, thrown, warnings>>
  /\ UNCHANGED <<fileHandle, previousChecksum>>

\* line 196, upload returns
SaveUpload ==
  /\ pc = "Transmitting"
  /\ calls' = Append(calls, Call("upload", localFilePath, query))
  /\ remoteExists' = TRUE
  /\ pc' = "CatalogFetch"
  /\ stages' = Append(stages, "CatalogFetch")
  /\ UNCHANGED <<properties, inserted, localFilePath, fs>>
  /\ UNCHANGED <<query, result, md5ChecksumRemote, md5ChecksumLocal, fileOpened,
                 eraseOutcome, thrown, warnings>>
  /\ UNCHANGED <<fileHandle, previousChecksum>>

\* mutant: the failure of upload is noted but the verification goes on
SaveUploadFails_Continue ==
  /\ pc = "Transmitting"
  /\ calls' = Append(calls, Call("upload", localFilePath, query))
  /\ thrown' = "UploadTransportError"
  /\ pc' = "CatalogFetch"
  /\ stages' = Append(stages, "CatalogFetch")
  /\ UNCHANGED objectVars
  /\ UNCHANGED <<query, result, md5ChecksumRemote, md5ChecksumLocal, fileOpened,
                 eraseOutcome, warnings>>
  /\ UNCHANGED <<fileHandle, previousChecksum>>

\* mutant: a failed upload is tried once more
SaveUploadFails_Retry ==
  /\ pc = "Transmitting"
  /\ calls' = Append(calls, Call("upload", localFilePath, query))
  /\ IF calls = <<>>
       THEN pc' = "Transmitting" /\ thrown' = thrown
       ELSE pc' = "Failed" /\ thrown' = "UploadTransportError"
  /\ UNCHANGED objectVars
  /\ UNCHANGED <<query, result, md5ChecksumRemote, md5ChecksumLocal, fileOpened,
                 eraseOutcome, warnings, stages>>
  /\ UNCHANGED <<fileHandle, previousChecksum>>

\* mutant: a failed upload is cleaned up by deleting the remote file
SaveUploadFails_Rollback ==
  /\ pc = "Transmitting"
  /\ \E outcome \in EraseOutcomes :
       /\ calls' = calls \o <<Call("upload", localFilePath, query),
                               Call("erase", "", resourceUri)>>
       /\ eraseOutcome' = outcome
  /\ thrown' = "UploadTransportError"
  /\ pc' = "Failed"
  /\ UNCHANGED objectVars
  /\ UNCHANGED <<query, result, md5ChecksumRemote, md5ChecksumLocal, fileOpened,
                 warnings, stages>>
  /\ UNCHANGED <<fileHandle, previousChecksum>>

\* line 196, upload throws
SaveUploadFails ==
  /\ pc = "Transmitting"
  /\ calls' = Append(calls, Call("upload", localFilePath, query))
  /\ thrown' = "UploadTransportError"
  /\ pc' = "Failed"
  /\ UNCHANGED objectVars
  /\ UNCHANGED <<query, result, md5ChecksumRemote, md5ChecksumLocal, fileOpened,
                 eraseOutcome, warnings, stages>>
  /\ UNCHANGED <<fileHandle, previousChecksum>>

\* mutant: the catalog is requested before the file is transmitted
SaveHttpGet_BeforeUpload ==
  /\ pc \in {"Transmitting", "CatalogFetch"}
  /\ calls' = Append(calls, Call("httpGet", "", <<ParentResourceUri>>))
  /\ pc' = "CatalogSync"
  /\ UNCHANGED objectVars
  /\ UNCHANGED <<query, result, md5ChecksumRemote, md5ChecksumLocal, fileOpened,
                 eraseOutcome, thrown, warnings, stages>>
  /\ UNCHANGED <<fileHandle, previousChecksum>>

\* lines 201-202, httpGet on the parent's URI returns
SaveHttpGet ==
  /\ pc = "CatalogFetch"
  /\ calls' = Append(calls, Call("httpGet", "", <<ParentResourceUri>>))
  /\ pc' = "CatalogSync"
  /\ UNCHANGED objectVars
  /\ UNCHANGED <<query, result, md5ChecksumRemote, md5ChecksumLocal, fileOpened,
                 eraseOutcome, thrown, warnings, stages>>
  /\ UNCHANGED <<fileHandle, previousChecksum>>

\* lines 201-202, httpGet throws
SaveHttpGetFails ==
  /\ pc = "CatalogFetch"
  /\ calls' = Append(calls, Call("httpGet", "", <<ParentResourceUri>>))
  /\ thrown' = "CatalogFetchError"
  /\ pc' = "Failed"
  /\ UNCHANGED objectVars
  /\ UNCHANGED <<query, result, md5ChecksumRemote, md5ChecksumLocal, fileOpened,
                 eraseOutcome, warnings, stages>>
  /\ UNCHANGED <<fileHandle, previousChecksum>>

\* mutant: the loop over the list lacks its --it and spins on a record
\* without the name
SaveHttpSync_NoDecrement ==
  /\ pc = "CatalogSync"
  /\ \E catalog \in Catalogs :
       /\ result' = catalog
       /\ IF catalog # <<>> /\ name \notin DOMAIN catalog[Len(catalog)]
            THEN /\ pc' = "Scanning"
                 /\ UNCHANGED <<md5ChecksumRemote, stages>>
            ELSE /\ pc' = "ChecksumCompare"
                 /\ md5ChecksumRemote' = RemoteChecksum(catalog, name)
                 /\ stages' = Append(stages, "ChecksumCompare")
  /\ calls' = Append(calls, Call("httpSync", "", <<>>))
  /\ UNCHANGED objectVars
  /\ UNCHANGED <<query, md5ChecksumLocal, fileOpened, eraseOutcome, thrown, warnings>>
  /\ UNCHANGED <<fileHandle, previousChecksum>>

\* mutant: a checksum found by an earlier attempt is used again
SaveHttpSync_Cached ==
  /\ pc = "CatalogSync"
  /\ \E catalog \in Catalogs :
       /\ result' = catalog
       /\ md5ChecksumRemote' = IF previousChecksum # NoValue
                                 THEN previousChecksum
                                 ELSE RemoteChecksum(catalog, name)
  /\ calls' = Append(calls, Call("httpSync", "", <<>>))
  /\ pc' = "ChecksumCompare"
  /\ stages' = Append(stages, "ChecksumCompare")
  /\ UNCHANGED objectVars
  /\ UNCHANGED <<query, md5ChecksumLocal, fileOpened, eraseOutcome, thrown, warnings>>
  /\ UNCHANGED <<fileHandle, previousChecksum>>

\* lines 203-219, httpSync returns the catalog list, which is scanned
SaveHttpSync ==
  /\ pc = "CatalogSync"
  /\ \E catalog \in Catalogs :
       /\ result' = catalog
       /\ md5ChecksumRemote' = RemoteChecksum(catalog, name)
  /\ calls' = Append(calls, Call("httpSync", "", <<>>))
  /\ pc' = "ChecksumCompare"
  /\ stages' = Append(stages, "ChecksumCompare")
  /\ UNCHANGED objectVars
  /\ UNCHANGED <<query, md5ChecksumLocal, fileOpened, eraseOutcome, thrown, warnings>>
  /\ UNCHANGED <<fileHandle, previousChecksum>>

\* mutant: a failed catalog fetch deletes the file just uploaded
SaveHttpSyncFails_Rollback ==
  /\ pc = "CatalogSync"
  /\ \E outcome \in EraseOutcomes :
       /\ calls' = calls \o <<Call("httpSync", "", <<>>),
                               Call("erase", "", resourceUri)>>
       /\ eraseOutcome' = outcome
       /\ remoteExists' = IF outcome = "deleted" THEN FALSE ELSE remoteExists
  /\ thrown' = "CatalogFetchError"
  /\ pc' = "Failed"
  /\ UNCHANGED <<properties, inserted, localFilePath, fs>>
  /\ UNCHANGED <<query, result, md5ChecksumRemote, md5ChecksumLocal, fileOpened,
                 warnings, stages>>
  /\ UNCHANGED <<fileHandle, previousChecksum>>

\* line 203, httpSync throws
SaveHttpSyncFails ==
  /\ pc = "CatalogSync"
  /\ calls' = Append(calls, Call("httpSync", "", <<>>))
  /\ thrown' = "CatalogFetchError"
  /\ pc' = "Failed"
  /\ UNCHANGED objectVars
  /\ UNCHANGED <<query, result, md5ChecksumRemote, md5ChecksumLocal, fileOpened,
                 eraseOutcome, warnings, stages>>
  /\ UNCHANGED <<fileHandle, previousChecksum>>

\* lines 221-236, the checksums are compared and differ: rollback
SaveMismatch ==
  /\ pc = "ChecksumCompare"
  /\ \E opened \in BOOLEAN, digest \in Digests, outcome \in EraseOutcomes :
       /\ CanValidate(opened, md5ChecksumRemote)
       /\ ChecksumMismatch(digest, md5ChecksumRemote)
       /\ fileOpened' = opened
       /\ fileHandle' = ScopeExit(HandleAfterOpen(opened))
       /\ md5ChecksumLocal' = digest
       /\ calls' = Append(calls, Call("erase", "", resourceUri))
       /\ eraseOutcome' = outcome
       /\ remoteExists' = IF outcome = "deleted" THEN FALSE ELSE remoteExists
       /\ warnings' = IF outcome = "failed"
                        THEN Append(warnings, "erase failed") ELSE warnings
       /\ thrown' = MismatchThrown(outcome)
  /\ pc' = "RolledBack"
  /\ stages' = Append(stages, "RolledBack")
  /\ UNCHANGED <<properties, inserted, localFilePath, fs>>
  /\ UNCHANGED <<query, result, md5ChecksumRemote>>
  /\ UNCHANGED previousChecksum

\* lines 221-236, the checksums are compared and agree
SaveMatch ==
  /\ pc = "ChecksumCompare"
  /\ \E opened \in BOOLEAN, digest \in Digests :
       /\ CanValidate(opened, md5ChecksumRemote)
       /\ ~ChecksumMismatch(digest, md5ChecksumRemote)
       /\ fileOpened' = opened
       /\ fileHandle' = ScopeExit(HandleAfterOpen(opened))
       /\ md5ChecksumLocal' = digest
  /\ pc' = "Done"
  /\ stages' = Append(stages, "Done")
  /\ UNCHANGED objectVars
  /\ UNCHANGED <<query, calls, result, md5ChecksumRemote, eraseOutcome, thrown, warnings>>
  /\ UNCHANGED previousChecksum

\* lines 221 and 237-240, the upload cannot be validated
SaveNotValidated ==
  /\ pc = "ChecksumCompare"
  /\ \E opened \in BOOLEAN :
       /\ ~CanValidate(opened, md5ChecksumRemote)
       /\ fileOpened' = opened
       /\ fileHandle' = ScopeExit(HandleAfterOpen(opened))
  /\ warnings' = Append(warnings, "Could not validate file upload!")
  /\ pc' = "Done"
  /\ stages' = Append(stages, "Done")
  /\ UNCHANGED objectVars
  /\ UNCHANGED <<query, calls, result, md5ChecksumRemote, md5ChecksumLocal,
                 eraseOutcome, thrown>>
  /\ UNCHANGED previousChecksum

(* downloadImpl, lines 147-151 *)

\* mutant: the destination is remembered as the resource's local file
downloadImpl_KeepsPath ==
  /\ pc = "Idle"
  /\ \E filename \in DestinationPaths :
       /\ calls' = Append(calls, Call("download", filename, resourceUri))
       /\ localFilePath' = filename
  /\ query' = resourceUri
  /\ pc' = "Downloaded"
  /\ UNCHANGED <<properties, inserted, fs, remoteExists>>
  /\ UNCHANGED <<result, md5ChecksumRemote, md5ChecksumLocal, fileOpened,
                 eraseOutcome, thrown, warnings, stages>>
  /\ UNCHANGED <<fileHandle, previousChecksum>>

downloadImpl ==
  /\ pc = "Idle"
  /\ \E filename \in DestinationPaths :
       calls' = Append(calls, Call("download", filename, resourceUri))
  /\ query' = resourceUri
  /\ pc' = "Downloaded"
  /\ UNCHANGED objectVars
  /\ UNCHANGED <<result, md5ChecksumRemote, md5ChecksumLocal, fileOpened,
                 eraseOutcome, thrown, warnings, stages>>
  /\ UNCHANGED <<fileHandle, previousChecksum>>

Terminal == {"Done", "RolledBack", "Failed", "Downloaded"}

\* the call returned (or its exception was handled by the caller)
Return ==
  /\ pc \in Terminal
  /\ pc' = "Idle"
  /\ query' = <<>>
  /\ calls' = <<>>
  /\ result' = <<>>
  /\ md5ChecksumRemote' = NoValue
  /\ md5ChecksumLocal' = NoValue
  /\ fileOpened' = FALSE
  /\ eraseOutcome' = NoValue
  /\ thrown' = NoValue
  /\ warnings' = <<>>
  /\ stages' = <<>>
  /\ previousChecksum' = IF md5ChecksumRemote # NoValue
                            THEN md5ChecksumRemote ELSE previousChecksum
  /\ UNCHANGED objectVars
  /\ UNCHANGED fileHandle

Next ==
  \/ setName
  \/ setLabel
  \/ setFileFormat
  \/ setFileContent
  \/ setFileTags
  \/ setLocalFilePath
  \/ LocalFileChanges
  \/ RemoteChanges
  \/ SaveLocalFileMissing
  \/ SaveBuildQuery
  \/ SaveUpload
  \/ SaveUploadFails
  \/ SaveHttpGet
  \/ SaveHttpGetFails
  \/ SaveHttpSync
  \/ SaveHttpSyncFails
  \/ SaveMismatch
  \/ SaveMatch
  \/ SaveNotValidated
  \/ downloadImpl
  \/ Return

Spec == Init /\ [][Next]_vars

\* the steps of a running saveImpl: every call into the session returns or
\* throws, and the code between the calls runs on
SaveStep ==
  \/ SaveUpload
  \/ SaveUploadFails
  \/ SaveHttpGet
  \/ SaveHttpGetFails
  \/ SaveHttpSync
  \/ SaveHttpSyncFails
  \/ SaveMismatch
  \/ SaveMatch
  \/ SaveNotValidated

FairSpec == Spec /\ WF_vars(SaveStep)

TypeOK ==
  /\ DOMAIN properties \subseteq AllKeys
  /\ pc \in {"Idle", "Transmitting", "CatalogFetch", "CatalogSync", "ChecksumCompare"}
            \cup Terminal
  /\ result \in Catalogs

----------------------------------------------------------------------------
(* Observations on an attempt *)

Ops == [i \in DOMAIN calls |-> calls[i].op]

CountOp(op) == Cardinality({i \in DOMAIN calls : calls[i].op = op})

Uploading == stages # <<>>

NotValidatedWarning == "Could not validate file upload!"

NameInCatalog == \E i \in DOMAIN result : name \in DOMAIN result[i]

\* the parameters of a query string: the <<key, value>> after each "?" or "&"
RECURSIVE ParamsFrom(_, _)
ParamsFrom(q, i) ==
  IF i > Len(q) THEN <<>>
  ELSE IF q[i] \in {"?", "&"} /\ i + 3 <= Len(q) /\ q[i + 2] = "="
    THEN <<<<q[i + 1], q[i + 3]>>>> \o ParamsFrom(q, i + 1)
    ELSE ParamsFrom(q, i + 1)

Params(q) == ParamsFrom(q, 1)

ParamKeys(q) == [i \in DOMAIN Params(q) |-> Params(q)[i][1]]

----------------------------------------------------------------------------
(* C1: an upload whose local file does not exist fails with LocalFileMissing
   and has made no call at all: no upload, no catalog get, no syncFetch, no
   deletion. *)
C1_MissingFileNoCalls ==
  (Uploading /\ localFilePath \notin fs) =>
    (pc = "Failed" /\ thrown = "LocalFileMissing" /\ calls = <<>>)

C1_Witness ==
  /\ pc = "Failed"
  /\ thrown = "LocalFileMissing"
  /\ localFilePath \in LocalPaths
  /\ localFilePath \notin fs

(* C2: when the file was transmitted, the catalog gave a checksum other than
   "0" for the name, the local file was opened and its digest differs from
   that checksum, the upload fails with UploadIntegrityMismatch and exactly
   one erase call was issued. *)
C2_MismatchRollsBack ==
  (/\ fileOpened
   /\ md5ChecksumRemote \notin {"0", NoValue}
   /\ md5ChecksumLocal \in Digests
   /\ md5ChecksumLocal # md5ChecksumRemote) =>
    (/\ pc = "RolledBack"
     /\ thrown = "UploadIntegrityMismatch"
     /\ CountOp("erase") = 1
     /\ Ops = <<"upload", "httpGet", "httpSync", "erase">>)

C2_Witness ==
  /\ pc = "RolledBack"
  /\ md5ChecksumRemote = "abc123"
  /\ md5ChecksumLocal = "def456"
  /\ CountOp("erase") = 1

(* C3: when the checksums mismatch and the deletion itself fails, the caller
   still receives UploadIntegrityMismatch; the failed deletion neither
   replaces nor suppresses it. *)
C3_FailedEraseKeepsMismatch ==
  (eraseOutcome = "failed") =>
    (pc = "RolledBack" /\ thrown = "UploadIntegrityMismatch")

C3_Witness ==
  /\ eraseOutcome = "failed"
  /\ CountOp("erase") = 1
  /\ md5ChecksumLocal # md5ChecksumRemote

(* C4: when the record found for the name carries a checksum equal to the
   local file's MD5 hex digest, the upload succeeds and no erase call is
   issued. *)
C4_MatchSucceeds ==
  (md5ChecksumLocal \in Digests /\ md5ChecksumLocal = md5ChecksumRemote) =>
    (pc = "Done" /\ thrown = NoValue /\ CountOp("erase") = 0)

C4_Witness ==
  /\ pc = "Done"
  /\ NameInCatalog
  /\ md5ChecksumLocal = "abc123"
  /\ md5ChecksumRemote = "abc123"

(* C5: when no record of the fetched catalog list has a key equal to the
   resource name, the remote checksum is the sentinel "0", the verification
   is skipped, and the upload succeeds with the not-validated warning and no
   erase call. *)
C5_NoRecordSkipsVerification ==
  (pc \in {"ChecksumCompare", "Done", "RolledBack"} /\ ~NameInCatalog) =>
    (/\ md5ChecksumRemote = "0"
     /\ pc # "RolledBack"
     /\ pc = "Done" =>
          (/\ thrown = NoValue
           /\ md5ChecksumLocal = NoValue
           /\ warnings = <<NotValidatedWarning>>
           /\ CountOp("erase") = 0))

C5_Witness ==
  /\ pc = "Done"
  /\ Len(result) = MaxCatalog
  /\ ~NameInCatalog
  /\ name # ""
  /\ fileOpened
  /\ warnings = <<NotValidatedWarning>>

----------------------------------------------------------------------------
(* Observations on the built query (pc = "Transmitting": the query is built,
   nothing was sent, remoteExists is what exists() answered at line 190) *)

QueryBuilt == pc = "Transmitting"

GenericInOrder ==
  SelectSeq(KeyOrder, LAMBDA k : k \in DOMAIN properties /\ k \notin ReservedKeys)

GenericPairs == [i \in DOMAIN GenericInOrder |->
                   <<GenericInOrder[i], properties[GenericInOrder[i]]>>]

FilePairs == <<<<"format", fileFormat>>, <<"content", fileContent>>,
               <<"tags", fileTags>>>>

EmittedGenericKeys == SelectSeq(ParamKeys(query), LAMBDA k : k \in GenericKeys)

IsPrefix(s, t) == Len(s) <= Len(t) /\ \A i \in DOMAIN s : s[i] = t[i]

(* C6: overwrite=true is a parameter of the upload query iff the resource is
   flagged as existing remotely at call time; when it is not flagged, no
   overwrite parameter appears. *)
C6_OverwriteIffExists ==
  QueryBuilt =>
    (/\ (\E i \in DOMAIN Params(query) : Params(query)[i] = <<"overwrite", "true">>)
          <=> remoteExists
     /\ ~remoteExists => "overwrite" \notin Range(ParamKeys(query)))

(* C7: the query's parameters are xsi:type=<schemaType>, then every
   non-reserved metadata pair once, in the map's iteration order, then
   format, content, tags, then overwrite=true if the resource exists
   remotely, then inbody=true last; no reserved key appears under its own
   name and no parameter is duplicated. *)
C7_QueryLayout ==
  QueryBuilt =>
    (/\ Params(query) =
          <<<<"xsi:type", SchemaType>>>> \o GenericPairs \o FilePairs
            \o (IF remoteExists THEN <<<<"overwrite", "true">>>> ELSE <<>>)
            \o <<<<"inbody", "true">>>>
     /\ Range(ParamKeys(query)) \cap ReservedKeys = {}
     /\ \A i, j \in DOMAIN Params(query) :
          ParamKeys(query)[i] = ParamKeys(query)[j] => i = j)

(* C8 as stated: the generic metadata pairs are emitted in the order in
   which they were inserted into the property store. *)
C8_InsertionOrder == QueryBuilt => EmittedGenericKeys = inserted

(* C8 amended: the generic metadata pairs are emitted in ascending key order
   of the property map, whatever the order of their insertion, and before
   the fixed trailer; so stores holding the same pairs emit them in the same
   order. *)
C8_KeyOrder ==
  QueryBuilt =>
    (/\ EmittedGenericKeys = SelectSeq(KeyOrder, LAMBDA k : k \in Range(inserted))
     /\ \A i, j \in DOMAIN Params(query) :
          (ParamKeys(query)[i] \in GenericKeys /\ ParamKeys(query)[j] = "format")
            => i < j)

C8_Witness ==
  /\ QueryBuilt
  /\ inserted = <<"label", "Name">>
  /\ EmittedGenericKeys = <<"Name", "label">>

(* C9: when several records of the catalog list have a key equal to the
   resource name, the remote checksum that is compared with the local digest
   is the value of the last such record; an earlier one is never used. *)
C9_LastMatchWins ==
  pc \in {"ChecksumCompare", "Done", "RolledBack"} =>
    \A i \in DOMAIN result :
      (/\ name \in DOMAIN result[i]
       /\ \A j \in DOMAIN result : j > i => name \notin DOMAIN result[j]) =>
        (/\ md5ChecksumRemote = result[i][name]
         /\ pc = "RolledBack" => md5ChecksumLocal # result[i][name]
         /\ (pc = "Done" /\ md5ChecksumLocal # NoValue)
              => md5ChecksumLocal = result[i][name])

C9_Witness ==
  /\ pc = "RolledBack"
  /\ Len(result) = 2
  /\ name \in DOMAIN result[1] /\ name \in DOMAIN result[2]
  /\ result[1][name] = "def456"
  /\ result[2][name] = "abc123"
  /\ md5ChecksumLocal = "def456"

(* C10: an upload attempt goes Validating, Transmitting, CatalogFetch,
   ChecksumCompare, then Done or RolledBack: the file check precedes upload,
   upload precedes httpGet on the parent URI, httpGet precedes httpSync,
   httpSync precedes the comparison and any deletion, and no stage is
   entered unless the one before completed without a failure. *)
C10_StageOrder ==
  Uploading =>
    (/\ \E last \in {"Done", "RolledBack"} :
          IsPrefix(stages, <<"Validating", "Transmitting", "CatalogFetch",
                             "ChecksumCompare", last>>)
     /\ IsPrefix(Ops, <<"upload", "httpGet", "httpSync", "erase">>)
     /\ Len(stages) >= 2 => localFilePath \in fs
     /\ Len(Ops) >= 1 => Len(stages) >= 2
     /\ Len(stages) >= 3 => Len(Ops) >= 1
     /\ Len(Ops) >= 2 => Len(stages) >= 3
     /\ Len(stages) >= 4 => Len(Ops) >= 3
     /\ md5ChecksumLocal # NoValue => Len(stages) = 5
     /\ Len(Ops) = 4 => Len(stages) = 5
     /\ \A i \in DOMAIN calls :
          calls[i].op = "httpGet" => calls[i].uri = <<ParentResourceUri>>
     /\ pc \notin Terminal => thrown = NoValue
     /\ pc = "Failed" => thrown # NoValue)

C10_Witness ==
  /\ stages = <<"Validating", "Transmitting", "CatalogFetch", "ChecksumCompare",
                "RolledBack">>
  /\ Ops = <<"upload", "httpGet", "httpSync", "erase">>

----------------------------------------------------------------------------
(* C11: when upload fails, the failure reaches the caller as
   UploadTransportError and the attempt ends before the verification: no
   catalog get, no syncFetch, no checksum comparison, no rollback deletion. *)
C11_UploadFailureAborts ==
  (thrown = "UploadTransportError") =>
    (/\ pc = "Failed"
     /\ Ops = <<"upload">>
     /\ stages = <<"Validating", "Transmitting">>
     /\ result = <<>>
     /\ md5ChecksumRemote = NoValue
     /\ md5ChecksumLocal = NoValue
     /\ ~fileOpened
     /\ eraseOutcome = NoValue)

C11_Witness ==
  /\ pc = "Failed"
  /\ thrown = "UploadTransportError"
  /\ Ops = <<"upload">>

(* C12: no automatic retry: in one attempt upload, httpGet, httpSync and
   erase are each called at most once, and a failure at any stage ends the
   attempt at once: the next step is the return to the caller, never an
   earlier stage. *)
C12_NoRetry ==
  /\ [](Uploading =>
          \A op \in {"upload", "httpGet", "httpSync", "erase"} : CountOp(op) <= 1)
  /\ [][(thrown = NoValue /\ thrown' # NoValue) => pc' \in {"Failed", "RolledBack"}]_vars
  /\ [][(thrown # NoValue) => (pc' = "Idle" /\ calls' = <<>> /\ stages' = <<>>)]_vars

C12_Witness ==
  /\ pc = "Failed"
  /\ thrown = "CatalogFetchError"
  /\ Ops = <<"upload", "httpGet", "httpSync">>

(* C13: the local file opened for the checksum is closed on every way out of
   the upload: after a match, after a skipped verification, and after a
   mismatch with its rollback and exception; no terminal state of an attempt
   has the file open. *)
C13_FileClosedAtExit == pc \in Terminal => fileHandle = "closed"

C13_Witness ==
  /\ pc = "RolledBack"
  /\ fileOpened
  /\ eraseOutcome = "failed"
  /\ thrown = "UploadIntegrityMismatch"
  /\ fileHandle = "closed"

(* C14: download makes exactly one call, download(destinationPath,
   parentResourceURI + "/files/" + name), and verifies nothing: no catalog
   get, no syncFetch, no comparison, no deletion; the properties and
   localFilePath are left as they were. *)
C14_DownloadOnly ==
  /\ [](pc = "Downloaded" =>
          (/\ Len(calls) = 1
           /\ calls[1].op = "download"
           /\ calls[1].file \in DestinationPaths
           /\ calls[1].uri = <<ParentResourceUri, "/files/", name>>
           /\ result = <<>>
           /\ md5ChecksumRemote = NoValue
           /\ md5ChecksumLocal = NoValue
           /\ eraseOutcome = NoValue
           /\ thrown = NoValue
           /\ stages = <<>>))
  /\ [][pc' = "Downloaded" =>
          (properties' = properties /\ localFilePath' = localFilePath)]_vars

C14_Witness ==
  /\ pc = "Downloaded"
  /\ name = "a.dcm"
  /\ localFilePath = "/tmp/a.dcm"
  /\ Len(calls) = 1

(* the records of the fetched list that have the resource name as a key *)
MatchingRecords == {i \in DOMAIN result : name \in DOMAIN result[i]}

LastMatching == CHOOSE i \in MatchingRecords : \A j \in MatchingRecords : j <= i

(* C15: the catalog is fetched anew in every upload and never cached: every
   attempt whose transmission succeeded and that compares a checksum has
   made its own httpGet on the parent URI and its own httpSync, and the
   checksum it compares comes from the list fetched in that attempt, not
   from an earlier attempt. *)
C15_FreshCatalog ==
  (Uploading /\ md5ChecksumRemote # NoValue) =>
    (/\ Len(calls) >= 3
     /\ calls[1].op = "upload"
     /\ calls[2] = Call("httpGet", "", <<ParentResourceUri>>)
     /\ calls[3].op = "httpSync"
     /\ CountOp("httpGet") = 1
     /\ CountOp("httpSync") = 1
     /\ md5ChecksumRemote =
          IF MatchingRecords = {} THEN "0" ELSE result[LastMatching][name])

C15_Witness ==
  /\ pc = "RolledBack"
  /\ previousChecksum = "abc123"
  /\ md5ChecksumRemote = "def456"
  /\ md5ChecksumLocal = "abc123"

(* C16: the verification is skipped, and the upload ends successfully with
   the warning and without a deletion, whenever the local file cannot be
   opened for reading (also when a record with a real checksum was found) or
   the remote checksum is "0" (also when a matching record holds "0"). *)
C16_SkippedVerification ==
  (pc \in {"Done", "RolledBack"} /\ (~fileOpened \/ md5ChecksumRemote = "0")) =>
    (/\ pc = "Done"
     /\ thrown = NoValue
     /\ warnings = <<NotValidatedWarning>>
     /\ CountOp("erase") = 0
     /\ md5ChecksumLocal = NoValue)

C16_Witness ==
  /\ pc = "Done"
  /\ ~fileOpened
  /\ NameInCatalog
  /\ md5ChecksumRemote = "abc123"
  /\ warnings = <<NotValidatedWarning>>

Visits == ScanVisits(result, name, Len(result))

(* C17: if every call into the session returns or fails, every upload
   attempt reaches a terminal outcome; the scan of the catalog list ends for
   every finite list, visits each record at most once, and for the empty
   list visits nothing and leaves the remote checksum at "0". *)
C17_Terminates ==
  /\ (Uploading /\ pc \notin Terminal) ~> (pc \in Terminal)
  /\ [](pc \in {"ChecksumCompare", "Done", "RolledBack"} =>
          (/\ Range(Visits) \subseteq DOMAIN result
           /\ \A i, j \in DOMAIN Visits : Visits[i] = Visits[j] => i = j
           /\ md5ChecksumRemote =
                IF Visits # <<>> /\ name \in DOMAIN result[Visits[Len(Visits)]]
                  THEN result[Visits[Len(Visits)]][name] ELSE "0"
           /\ result = <<>> => (Visits = <<>> /\ md5ChecksumRemote = "0")))

C17_Witness ==
  /\ pc = "Done"
  /\ result = <<>>
  /\ md5ChecksumRemote = "0"
  /\ Ops = <<"upload", "httpGet", "httpSync">>

(* C18: an erase call is issued in an attempt only if, in that attempt,
   upload succeeded, httpGet and httpSync completed, a record with the
   resource name and a value other than "0" was found, the local file was
   opened and its digest differs from that value; in every other state of
   an attempt no deletion was issued. *)
C18_EraseOnlyOnMismatch ==
  (CountOp("erase") > 0 \/ eraseOutcome # NoValue) =>
    (/\ pc = "RolledBack"
     /\ Ops = <<"upload", "httpGet", "httpSync", "erase">>
     /\ MatchingRecords # {}
     /\ result[LastMatching][name] # "0"
     /\ fileOpened
     /\ md5ChecksumLocal \in Digests
     /\ md5ChecksumLocal # result[LastMatching][name])

C18_Witness ==
  /\ pc = "RolledBack"
  /\ eraseOutcome = "deleted"
  /\ CountOp("erase") = 1
  /\ ~remoteExists

(* C19: when upload succeeded and the catalog fetch (httpGet or httpSync)
   then fails, the failure reaches the caller and the attempt ends without
   a checksum comparison and without an erase call: the file just uploaded
   stays on the server, unverified. *)
C19_CatalogFailureLeavesFile ==
  (thrown = "CatalogFetchError") =>
    (/\ pc = "Failed"
     /\ Ops \in {<<"upload", "httpGet">>, <<"upload", "httpGet", "httpSync">>}
     /\ md5ChecksumRemote = NoValue
     /\ md5ChecksumLocal = NoValue
     /\ ~fileOpened
     /\ eraseOutcome = NoValue
     /\ warnings = <<>>
     /\ remoteExists)

C19_Witness ==
  /\ thrown = "CatalogFetchError"
  /\ Ops = <<"upload", "httpGet", "httpSync">>
  /\ remoteExists

(* C20: upload does not check that the name is set: with an empty name and
   an existing local file the attempt passes the validation, calls upload
   with the URI parentResourceURI + "/files/" (the name part empty) and goes
   on to the catalog fetch. *)
C20_EmptyNameNotChecked ==
  (Uploading /\ name = "" /\ localFilePath \in fs) =>
    (/\ Len(stages) >= 2
     /\ pc = "Failed" => thrown \in {"UploadTransportError", "CatalogFetchError"}
     /\ pc = "Transmitting" => SubSeq(query, 1, 3) = <<ParentResourceUri, "/files/", "">>
     /\ Len(calls) >= 1 =>
          (/\ calls[1].op = "upload"
           /\ calls[1].file = localFilePath
           /\ SubSeq(calls[1].uri, 1, 4) = <<ParentResourceUri, "/files/", "", "?">>)
     /\ Len(calls) >= 2 => calls[2] = Call("httpGet", "", <<ParentResourceUri>>))

C20_Witness ==
  /\ name = ""
  /\ localFilePath \in fs
  /\ pc = "CatalogSync"
  /\ Ops = <<"upload", "httpGet">>

====
